---- MODULE Spec2Model ----
(***************************************************************************)
(* Missing-value analysis and imputation of datnguyen305/DS317:            *)
(*   modules/preprocess/dealing_with_null.py  (handle_null_values)         *)
(*   modules/preprocess/checking_type_of_missing_value.py                  *)
(*                                            (MissingValueAnalyzer)       *)
(*                                                                         *)
(* A table is a pandas DataFrame: an ordered list of column names, a dtype *)
(* per column and an ordered list of rows.  Every row carries the index    *)
(* label it was created with, so that "the same rows in the same order"    *)
(* can be stated.  A cell is the empty tuple when it is missing (NaN or    *)
(* None), a pair <<n, d>> (the rational n/d in lowest terms) in a numeric  *)
(* column and a 1-tuple <<i>> (the i-th string in lexicographic order) in  *)
(* an object column.                                                       *)
(*                                                                         *)
(* pandas is modelled with the semantics the code is written for: a        *)
(* column taken out of a frame (df[col]) is a view, and fillna with        *)
(* inplace=True on it writes through to the frame.                         *)
(***************************************************************************)
EXTENDS Integers, Sequences, FiniteSets, TLC

VARIABLES df, op, arg, pre, status, result

vars == <<df, op, arg, pre, status, result>>

----------------------------------------------------------------------------
(* Bounds of the model *)

MaxRows == 3
MaxVal == 2
MaxNames == 2

(* The universe of column names: a table has a non-empty prefix of ColPool *)
(* as its columns; "Z" is a name no table has.                             *)
ColPool == <<"X", "Y">>
Names == {"X", "Y", "Z"}
DTypes == {"num", "str"}
StrVals == {<<1>>}

----------------------------------------------------------------------------
(* Cells and rational arithmetic *)

Missing == <<>>

IsNull(cell) == cell = Missing

RECURSIVE GCD(_, _)
GCD(a, b) == IF b = 0 THEN a ELSE GCD(b, a % b)

Rat(n, d) == LET g == GCD(n, d) IN <<n \div g, d \div g>>

RatAdd(a, b) == Rat(a[1] * b[2] + b[1] * a[2], a[2] * b[2])

RatMul(a, b) == Rat(a[1] * b[1], a[2] * b[2])

RatDiv(a, k) == Rat(a[1], a[2] * k)

RatLess(a, b) == a[1] * b[2] < b[1] * a[2]

(* The order pandas sorts the values of one column by *)
ValLess(a, b) == IF Len(a) = 1 THEN a[1] < b[1] ELSE RatLess(a, b)

RECURSIVE RatSum(_)
RatSum(s) == IF s = <<>> THEN <<0, 1>> ELSE RatAdd(Head(s), RatSum(Tail(s)))

----------------------------------------------------------------------------
(* DataFrame primitives *)

HasColumn(t, c) == \E i \in 1..Len(t.columns) : t.columns[i] = c

Series(t, c) == [i \in 1..Len(t.rows) |-> t.rows[i].cells[c]]

AnyNull(t, c) == \E i \in 1..Len(t.rows) : IsNull(t.rows[i].cells[c])

DropNa(s) == SelectSeq(s, LAMBDA v : ~IsNull(v))

FillNa(t, c, v) ==
    [t EXCEPT !.rows = [i \in 1..Len(t.rows) |->
        IF IsNull(t.rows[i].cells[c])
        THEN [t.rows[i] EXCEPT !.cells[c] = v]
        ELSE t.rows[i]]]

(* dropna with how="all": only the rows missing in every column of subset go *)
DropRowsHowAll(t, subset) ==
    [t EXCEPT !.rows = SelectSeq(t.rows,
        LAMBDA r : \E c \in subset : ~IsNull(r.cells[c]))]

DropRows(t, subset) ==
    [t EXCEPT !.rows = SelectSeq(t.rows,
        LAMBDA r : \A c \in subset : ~IsNull(r.cells[c]))]

Range(s) == {s[i] : i \in 1..Len(s)}

(* The mean with the missing cells counted as observations of 0 *)
SeriesMeanAllRows(t, c) ==
    LET obs == DropNa(Series(t, c))
    IN  IF obs = <<>> THEN Missing ELSE RatDiv(RatSum(obs), Len(t.rows))

(* Series.mean(): NaN (here Missing) when nothing is observed; only called *)
(* on a numeric column or an object column without strings.                *)
SeriesMean(t, c) ==
    LET obs == DropNa(Series(t, c))
    IN  IF obs = <<>> THEN Missing ELSE RatDiv(RatSum(obs), Len(obs))

(* The k-th smallest of a non-empty sequence of values *)
KthSmallest(s, k) ==
    CHOOSE v \in Range(s) :
        /\ Cardinality({j \in 1..Len(s) : ValLess(s[j], v)}) < k
        /\ Cardinality({j \in 1..Len(s) : ~ValLess(v, s[j])}) >= k

SeriesMedian(t, c) ==
    LET obs == DropNa(Series(t, c))
        n == Len(obs)
    IN  IF n = 0 THEN Missing
        ELSE IF n % 2 = 1 THEN KthSmallest(obs, (n + 1) \div 2)
        ELSE RatDiv(RatAdd(KthSmallest(obs, n \div 2),
                           KthSmallest(obs, n \div 2 + 1)), 2)

Count(s, v) == Cardinality({j \in 1..Len(s) : s[j] = v})

(* Series.mode(): the most frequent observed values, sorted ascending *)
Modes(t, c) ==
    LET obs == DropNa(Series(t, c))
    IN  {v \in Range(obs) : \A w \in Range(obs) : Count(obs, w) <= Count(obs, v)}

(* The most frequent observed value that occurs first in the column *)
FirstOccurring(t, c) ==
    LET obs == DropNa(Series(t, c))
        i == CHOOSE k \in 1..Len(obs) :
                 /\ obs[k] \in Modes(t, c)
                 /\ \A j \in 1..(k - 1) : obs[j] \notin Modes(t, c)
    IN  obs[i]

(* Series.mode()[0]: the first of the sorted modes, that is the smallest *)
ModeAtZero(t, c) ==
    CHOOSE v \in Modes(t, c) : \A w \in Modes(t, c) : ~ValLess(w, v)

(* A numeric reduction of an object column raises when it meets a string *)
NotNumeric(t, c) == t.dtype[c] = "str" /\ DropNa(Series(t, c)) # <<>>

----------------------------------------------------------------------------
(* Outcomes of a call.  df is the caller's table after the call, ref says  *)
(* which object is returned: "same" (the caller's table), "copy" (a new    *)
(* table) or "none" (the call raised), and out is the returned table.      *)

Return(t) == [status |-> "ok", df |-> t, ref |-> "same", out |-> t]

ReturnCopy(t, copy) == [status |-> "ok", df |-> t, ref |-> "copy", out |-> copy]

Raise(kind, t) == [status |-> kind, df |-> t, ref |-> "none", out |-> t]

(* column_names: None, or a list of names *)
None == [given |-> FALSE, list |-> <<>>]

List(l) == [given |-> TRUE, list |-> l]

ColumnsToProcess(t, column_names) ==
    IF column_names.given THEN column_names.list ELSE t.columns

----------------------------------------------------------------------------
(* handle_null_values: the fixed-rule strategies *)

RECURSIVE MeanLoop(_, _, _)
MeanLoop(t, cols, k) ==
    IF k > Len(cols) THEN Return(t)
    ELSE LET col == cols[k]
         IN  IF ~HasColumn(t, col) THEN Raise("KeyError", t)
             ELSE IF ~AnyNull(t, col) THEN MeanLoop(t, cols, k + 1)
             ELSE IF NotNumeric(t, col) THEN Raise("TypeError", t)
             ELSE MeanLoop(FillNa(t, col, SeriesMean(t, col)), cols, k + 1)

RECURSIVE ModeLoop(_, _, _)
ModeLoop(t, cols, k) ==
    IF k > Len(cols) THEN Return(t)
    ELSE LET column == cols[k]
         IN  IF ~HasColumn(t, column) THEN Raise("KeyError", t)
             ELSE IF ~AnyNull(t, column) THEN ModeLoop(t, cols, k + 1)
             ELSE IF Modes(t, column) = {} THEN Raise("KeyError", t)
             ELSE ModeLoop(FillNa(t, column, ModeAtZero(t, column)), cols, k + 1)

RECURSIVE MedianLoop(_, _, _)
MedianLoop(t, cols, k) ==
    IF k > Len(cols) THEN Return(t)
    ELSE LET column == cols[k]
         IN  IF ~HasColumn(t, column) THEN Raise("KeyError", t)
             ELSE IF ~AnyNull(t, column) THEN MedianLoop(t, cols, k + 1)
             ELSE IF NotNumeric(t, column) THEN Raise("TypeError", t)
             ELSE MedianLoop(FillNa(t, column, SeriesMedian(t, column)), cols, k + 1)

(* df.dropna(subset=column_names, inplace=True); subset=None is every column *)
DropSubset(t, column_names) == Range(ColumnsToProcess(t, column_names))

HandleDrop(t, column_names) ==
    IF \E c \in DropSubset(t, column_names) : ~HasColumn(t, c)
    THEN Raise("KeyError", t)
    ELSE Return(DropRows(t, DropSubset(t, column_names)))

----------------------------------------------------------------------------
(* MissingValueAnalyzer *)

(* significance_level and p-values, in hundredths *)
SignificanceLevel == 5
PNaN == 0 - 1
PValues == {1, 5, 50}

(* A dict: its keys in insertion order and its values *)
EmptyDict == [keys |-> <<>>, val |-> <<>>]

DictSet(d, key, v) ==
    [keys |-> IF key \in Range(d.keys) THEN d.keys ELSE Append(d.keys, key),
     val  |-> [x \in Range(d.keys) \cup {key} |-> IF x = key THEN v ELSE d.val[x]]]

(* The columns that do exist, reported as the ones that do not *)
check_columns_exist_inverted(t, column_names) ==
    SelectSeq(column_names, LAMBDA col : HasColumn(t, col))

check_columns_exist(t, column_names) ==
    SelectSeq(column_names, LAMBDA col : ~HasColumn(t, col))

(* test.missing_values_types of statsmodels.imputation is not part of the  *)
(* repository: any of the labels the docstring lists, or an error.         *)
MissingLabels == {"NaN", "None", "Both", "No Missing Values"}

analyze_single_column(t, column_name) == MissingLabels \cup {"raise"}

RECURSIVE TypesLoop(_, _, _, _)
TypesLoop(t, column_names, k, results) ==
    IF k > Len(column_names) THEN {[status |-> "ok", value |-> results]}
    ELSE LET column == column_names[k]
         IN  IF column \in Range(check_columns_exist(t, column_names))
             THEN TypesLoop(t, column_names, k + 1,
                            DictSet(results, column, "Column not found"))
             ELSE UNION {IF r = "raise"
                         THEN {[status |-> "AttributeError", value |-> EmptyDict]}
                         ELSE TypesLoop(t, column_names, k + 1,
                                        DictSet(results, column, r))
                         : r \in analyze_single_column(t, column)}

check_missing_value_types(t, column_names) ==
    TypesLoop(t, ColumnsToProcess(t, column_names), 1, EmptyDict)

(* numeric_cols is a Python list, and a list has no attribute "empty" *)
ListHasEmpty == FALSE

NumericCols(t, column) ==
    SelectSeq(t.columns, LAMBDA col : t.dtype[col] = "num" /\ col # column)

(* The rows of other_col where the indicator of column is ind *)
Group(t, column, other_col, ind) ==
    LET rs == SelectSeq(t.rows, LAMBDA r : IsNull(r.cells[column]) = (ind = 1))
    IN  [i \in 1..Len(rs) |-> rs[i].cells[other_col]]

(* stats.ttest_ind is not part of the repository: NaN for an empty sample, *)
(* any p-value otherwise.                                                  *)
TTestInd(a, b) == IF a = <<>> \/ b = <<>> THEN {PNaN} ELSE PValues

RECURSIVE TTestLoop(_, _, _, _, _)
TTestLoop(t, column, numeric_cols, k, p_values) ==
    IF k > Len(numeric_cols) THEN {p_values}
    ELSE LET other_col == numeric_cols[k]
             missing_group == Group(t, column, other_col, 1)
             non_missing_group == Group(t, column, other_col, 0)
         IN  IF Len(missing_group) > 0 /\ Len(non_missing_group) > 0
             THEN UNION {TTestLoop(t, column, numeric_cols, k + 1, Append(p_values, p))
                         : p \in TTestInd(DropNa(missing_group), DropNa(non_missing_group))}
             ELSE TTestLoop(t, column, numeric_cols, k + 1, p_values)

(* Python's x > y and min() with NaN: every comparison with NaN is false *)
PGreater(p, q) == p # PNaN /\ q # PNaN /\ p > q

RECURSIVE PyMin(_, _)
PyMin(s, m) ==
    IF s = <<>> THEN m
    ELSE PyMin(Tail(s), IF PGreater(m, Head(s)) THEN Head(s) ELSE m)

check_mcar(t, column) ==
    IF ~HasColumn(t, column) THEN {[status |-> "ValueError"]}
    ELSE LET numeric_cols == NumericCols(t, column)
         IN  IF ~ListHasEmpty THEN {[status |-> "AttributeError"]}
             ELSE IF numeric_cols # <<>>
             THEN {[status |-> "ok",
                    is_mcar |-> \A i \in 1..Len(ps) : PGreater(ps[i], SignificanceLevel),
                    p_value |-> IF ps = <<>> THEN 100 ELSE PyMin(Tail(ps), Head(ps))]
                   : ps \in TTestLoop(t, column, numeric_cols, 1, <<>>)}
             ELSE {[status |-> "ok", is_mcar |-> TRUE, p_value |-> 100]}

(* In get_missing_stats the name stats is the local dict, which shadows    *)
(* scipy.stats: a dict has no attribute "skew".                            *)
DictHasSkew == FALSE

(* |stats.skew(data)| > 0.5 with skew = m3 / m2^1.5 over the central moments; *)
(* skew is NaN when m2 = 0, and NaN > 0.5 is false.                         *)
IsSkewed(data) ==
    LET n == Len(data)
        mean == RatDiv(RatSum(data), n)
        dev == [i \in 1..n |-> RatAdd(data[i], <<0 - mean[1], mean[2]>>)]
        sq == [i \in 1..n |-> RatMul(dev[i], dev[i])]
        m2 == RatDiv(RatSum(sq), n)
        m3 == RatDiv(RatSum([i \in 1..n |-> RatMul(sq[i], dev[i])]), n)
        m2cubed == RatMul(m2, RatMul(m2, m2))
    IN  /\ n > 0
        /\ m2[1] # 0
        /\ RatLess(m2cubed, RatMul(<<4, 1>>, RatMul(m3, m3)))

RECURSIVE StatsLoop(_, _, _, _)
StatsLoop(t, column_names, k, stats) ==
    IF k > Len(column_names) THEN {[status |-> "ok", value |-> stats]}
    ELSE LET column == column_names[k]
             data == DropNa(Series(t, column))
         IN  IF ~HasColumn(t, column) THEN StatsLoop(t, column_names, k + 1, stats)
             ELSE UNION {
                 IF m.status # "ok" THEN {[status |-> m.status, value |-> EmptyDict]}
                 ELSE IF t.dtype[column] = "num"
                 THEN IF ~DictHasSkew
                      THEN {[status |-> "AttributeError", value |-> EmptyDict]}
                      ELSE StatsLoop(t, column_names, k + 1,
                               DictSet(stats, column,
                                   [mcar |-> IF m.is_mcar THEN 1 ELSE 0,
                                    skewness |-> IF IsSkewed(data) THEN 1 ELSE 0]))
                 ELSE StatsLoop(t, column_names, k + 1,
                          DictSet(stats, column,
                              [mcar |-> IF m.is_mcar THEN 1 ELSE 0, skewness |-> 0]))
                 : m \in check_mcar(t, column)}

get_missing_stats(t, column_names) ==
    StatsLoop(t, ColumnsToProcess(t, column_names), 1, EmptyDict)

----------------------------------------------------------------------------
(* handle_null_values: KNN *)

NNeighbors == 5

RECURSIVE SumAt(_, _)
SumAt(ser, D) ==
    IF D = {} THEN <<0, 1>>
    ELSE LET i == CHOOSE j \in D : TRUE
         IN  RatAdd(ser[i], SumAt(ser, D \ {i}))

(* KNNImputer averages, for a missing cell, the nearest NNeighbors rows    *)
(* that observe the column (all of them when there are no more than that); *)
(* which rows are nearest is the imputer's business.                       *)
KNNValues(t, c) ==
    LET ser == Series(t, c)
        donors == {i \in 1..Len(ser) : ~IsNull(ser[i])}
        chosen == IF Cardinality(donors) <= NNeighbors THEN {donors}
                  ELSE {D \in SUBSET donors : Cardinality(D) = NNeighbors}
    IN  {RatDiv(SumAt(ser, D), Cardinality(D)) : D \in chosen}

(* fit_transform rejects an empty matrix and strings, and leaves out a     *)
(* column without any observed value, so that the assignment back fails.   *)
KNNRejects(t, cols) ==
    \/ Len(t.rows) = 0
    \/ cols = <<>>
    \/ \E c \in Range(cols) : NotNumeric(t, c) \/ DropNa(Series(t, c)) = <<>>

KNNFills(t, cols) ==
    LET cells == {p \in Range(cols) \X (1..Len(t.rows)) : IsNull(t.rows[p[2]].cells[p[1]])}
        all == UNION {KNNValues(t, c) : c \in Range(cols)}
    IN  {F \in [cells -> all] : \A p \in cells : F[p] \in KNNValues(t, p[1])}

KNNApply(t, cols, F) ==
    [t EXCEPT !.rows = [i \in 1..Len(t.rows) |->
        [t.rows[i] EXCEPT !.cells = [c \in DOMAIN t.rows[i].cells |->
            IF c \in Range(cols) /\ IsNull(t.rows[i].cells[c])
            THEN F[<<c, i>>] ELSE t.rows[i].cells[c]]]]]

HandleKNN(t, column_names) ==
    LET cols == ColumnsToProcess(t, column_names)
    IN  IF \E c \in Range(cols) : ~HasColumn(t, c) THEN {Raise("KeyError", t)}
        ELSE IF KNNRejects(t, cols) THEN {Raise("ValueError", t)}
        ELSE {Return(KNNApply(t, cols, F)) : F \in KNNFills(t, cols)}

----------------------------------------------------------------------------
(* handle_null_values: auto *)

RECURSIVE AutoLoop(_, _, _, _, _)
AutoLoop(t, df_copy, keys, k, missing_stats) ==
    IF k > Len(keys) THEN ReturnCopy(t, df_copy)
    ELSE LET column == keys[k]
             stats == missing_stats.val[column]
         IN  IF stats.mcar = 1
             THEN AutoLoop(t, DropRows(df_copy, {column}), keys, k + 1, missing_stats)
             ELSE IF ~AnyNull(t, column)
             THEN AutoLoop(t, df_copy, keys, k + 1, missing_stats)
             ELSE IF stats.skewness = 1
             THEN IF Modes(t, column) = {} THEN Raise("KeyError", t)
                  ELSE AutoLoop(t, FillNa(df_copy, column, ModeAtZero(t, column)),
                                keys, k + 1, missing_stats)
             ELSE IF NotNumeric(t, column) THEN Raise("TypeError", t)
             ELSE AutoLoop(t, FillNa(df_copy, column, SeriesMean(t, column)),
                           keys, k + 1, missing_stats)

(* df_copy = df instead of df.copy(): the loop works on the caller's table *)
Alias(o) == IF o.ref = "copy" THEN Return(o.out) ELSE o

HandleAutoAlias(t, column_names) ==
    {IF s.status # "ok" THEN Raise(s.status, t)
     ELSE Alias(AutoLoop(t, t, s.value.keys, 1, s.value))
     : s \in get_missing_stats(t, List(ColumnsToProcess(t, column_names)))}

HandleAuto(t, column_names) ==
    {IF s.status # "ok" THEN Raise(s.status, t)
     ELSE AutoLoop(t, t, s.value.keys, 1, s.value)
     : s \in get_missing_stats(t, List(ColumnsToProcess(t, column_names)))}

----------------------------------------------------------------------------
(* handle_null_values *)

Recognized == {"mean", "mode", "median", "drop", "KNN", "auto"}
Unrecognized == {"Mean", "knn"}
Strategies == Recognized \cup Unrecognized

(* An unrecognized strategy falling back to the default strategy, "mean" *)
handle_null_values_fallback(t, strategy, column_names) ==
    LET columns_to_process == ColumnsToProcess(t, column_names)
    IN  CASE strategy = "mode"   -> {ModeLoop(t, columns_to_process, 1)}
          [] strategy = "median" -> {MedianLoop(t, columns_to_process, 1)}
          [] strategy = "drop"   -> {HandleDrop(t, column_names)}
          [] strategy = "KNN"    -> HandleKNN(t, column_names)
          [] strategy = "auto"   -> HandleAuto(t, column_names)
          [] OTHER               -> {MeanLoop(t, columns_to_process, 1)}

handle_null_values(t, strategy, column_names) ==
    LET columns_to_process == ColumnsToProcess(t, column_names)
    IN  CASE strategy = "mean"   -> {MeanLoop(t, columns_to_process, 1)}
          [] strategy = "mode"   -> {ModeLoop(t, columns_to_process, 1)}
          [] strategy = "median" -> {MedianLoop(t, columns_to_process, 1)}
          [] strategy = "drop"   -> {HandleDrop(t, column_names)}
          [] strategy = "KNN"    -> HandleKNN(t, column_names)
          [] strategy = "auto"   -> HandleAuto(t, column_names)
          [] OTHER               -> {Return(t)}

----------------------------------------------------------------------------
(* The state machine: a caller holding one table, df, and calling the      *)
(* library on it.  op, arg, pre, status and result record the last call:   *)
(* its name, its arguments, the table before it, how it ended and what it  *)
(* returned.                                                               *)
(*                                                                         *)
(* The outcome of a call depends on the table alone, never on the record   *)
(* of the call before it.  Every table a call leaves unchanged is a table  *)
(* some earlier state already holds, so calls are taken from an initial    *)
(* state and from a state whose call has just changed the table (Fresh):   *)
(* the reachable states are the same as without this guard.                *)

CellsOf(dtype) ==
    {Missing} \cup (IF dtype = "num" THEN {<<v, 1>> : v \in 1..MaxVal} ELSE StrVals)

RowCells(cols, dt) ==
    {f \in [Range(cols) -> CellsOf("num") \cup CellsOf("str")] :
        \A c \in Range(cols) : f[c] \in CellsOf(dt[c])}

Tables ==
    UNION {UNION {UNION {
        {[columns |-> SubSeq(ColPool, 1, n),
          dtype   |-> dt,
          rows    |-> [i \in 1..r |-> [id |-> i, cells |-> m[i]]]]
         : m \in [1..r -> RowCells(SubSeq(ColPool, 1, n), dt)]}
        : r \in 0..MaxRows}
        : dt \in [Range(SubSeq(ColPool, 1, n)) -> DTypes]}
        : n \in 1..Len(ColPool)}

NameLists == UNION {[1..k -> Names] : k \in 0..MaxNames}

NameArgs == {None} \cup {List(l) : l \in NameLists}

NoArg == [strategy |-> "", column_names |-> None, column |-> ""]

Init ==
    /\ df \in Tables
    /\ op = "init"
    /\ arg = NoArg
    /\ pre = df
    /\ status = "ok"
    /\ result = [ref |-> "none"]

Fresh == op = "init" \/ df # pre

HandleNullValues ==
    /\ Fresh
    /\ \E strategy \in Strategies, column_names \in NameArgs :
        \E o \in handle_null_values(df, strategy, column_names) :
              /\ op' = "handle_null_values"
              /\ arg' = [NoArg EXCEPT !.strategy = strategy, !.column_names = column_names]
              /\ pre' = df
              /\ df' = o.df
              /\ status' = o.status
              /\ result' = [ref |-> o.ref, out |-> o.out]

CheckMissingValueTypes ==
    /\ Fresh
    /\ \E column_names \in NameArgs :
          \E o \in check_missing_value_types(df, column_names) :
              /\ op' = "check_missing_value_types"
              /\ arg' = [NoArg EXCEPT !.column_names = column_names]
              /\ pre' = df
              /\ status' = o.status
              /\ result' = o.value
              /\ UNCHANGED df

CheckMcar ==
    /\ Fresh
    /\ \E column \in Names :
          \E o \in check_mcar(df, column) :
              /\ op' = "check_mcar"
              /\ arg' = [NoArg EXCEPT !.column = column]
              /\ pre' = df
              /\ status' = o.status
              /\ result' = o
              /\ UNCHANGED df

GetMissingStats ==
    /\ Fresh
    /\ \E column_names \in NameArgs :
          \E o \in get_missing_stats(df, column_names) :
              /\ op' = "get_missing_stats"
              /\ arg' = [NoArg EXCEPT !.column_names = column_names]
              /\ pre' = df
              /\ status' = o.status
              /\ result' = o.value
              /\ UNCHANGED df

Next ==
    \/ HandleNullValues
    \/ CheckMissingValueTypes
    \/ CheckMcar
    \/ GetMissingStats

Spec == Init /\ [][Next]_vars

----------------------------------------------------------------------------
(* Vocabulary of the properties: the last call, seen from its record *)

Handled(strategy) == op = "handle_null_values" /\ arg.strategy = strategy

Requested == Range(ColumnsToProcess(pre, arg.column_names))

Targeted == {c \in Requested : HasColumn(pre, c)}

Observed(c) == DropNa(Series(pre, c))

HasMissing(t) == \E c \in Range(t.columns) : AnyNull(t, c)

PreRow(id) == CHOOSE r \in Range(pre.rows) : r.id = id

(* m is the arithmetic mean of the non-empty sequence of rationals s *)
IsMeanOf(m, s) ==
    /\ Len(m) = 2
    /\ m[1] * Len(s) * RatSum(s)[2] = RatSum(s)[1] * m[2]

(* v is among the most frequent values of s *)
MostFrequent(v, s) ==
    v \in Range(s) /\ \A w \in Range(s) : Count(s, w) <= Count(s, v)

(* Column c of df is column c of pre with v in place of the missing cells *)
FilledWith(c, v) ==
    /\ Len(df.rows) = Len(pre.rows)
    /\ \A i \in 1..Len(pre.rows) :
          df.rows[i].cells[c] =
              IF IsNull(pre.rows[i].cells[c]) THEN v ELSE pre.rows[i].cells[c]

----------------------------------------------------------------------------
(* C1: handle_null_values with strategy "auto" never changes the caller's  *)
(* table, whether it returns or raises, and a table it returns is a new    *)
(* object, not the caller's.                                               *)
C1_AutoNeverMutatesInput ==
    Handled("auto") =>
        /\ df = pre
        /\ status = "ok" => result.ref = "copy"

C1_Witness ==
    /\ Handled("auto")
    /\ status = "ok"
    /\ result.ref = "copy"
    /\ HasMissing(df)

(* C2: with strategy "auto" and every targeted column in the table, the    *)
(* call returns a table in which each missing cell of a targeted column is *)
(* gone: its row dropped, or the cell filled with the column's mode or     *)
(* mean; the observed cells are kept.                                      *)
C2_AutoReturnsImputedTable ==
    (Handled("auto") /\ Requested = Targeted) =>
        /\ status = "ok"
        /\ \A c \in Targeted : \A i \in 1..Len(result.out.rows) :
              LET r == result.out.rows[i]
                  p == PreRow(r.id)
              IN  IF IsNull(p.cells[c])
                  THEN \/ MostFrequent(r.cells[c], Observed(c))
                       \/ IsMeanOf(r.cells[c], Observed(c))
                  ELSE r.cells[c] = p.cells[c]

(* C3: check_mcar on an existing column of a table without any other      *)
(* numeric column returns (True, 1.0) and does not raise.                  *)
C3_NoCovariatesIsMcar ==
    (op = "check_mcar" /\ HasColumn(pre, arg.column)
        /\ NumericCols(pre, arg.column) = <<>>) =>
        /\ status = "ok"
        /\ result.is_mcar
        /\ result.p_value = 100

(* C4: check_mcar on an existing column returns a verdict that is true     *)
(* exactly when the returned minimum p-value is above significance_level.  *)
C4_VerdictIffMinPAboveLevel ==
    (op = "check_mcar" /\ HasColumn(pre, arg.column)) =>
        /\ status = "ok"
        /\ result.is_mcar <=> PGreater(result.p_value, SignificanceLevel)

(* C5: a requested name that is not a column makes neither call raise:     *)
(* check_missing_value_types maps it to "Column not found" and goes on     *)
(* with the other names, so that it raises only when the classification of *)
(* an existing column does; the keys of the mapping get_missing_stats      *)
(* returns are the requested names that are columns, and no other.         *)
C5_AbsentNames ==
    /\ op = "check_missing_value_types" =>
          /\ status = "ok" =>
                /\ Range(result.keys) = Requested
                /\ \A c \in Requested :
                      (result.val[c] = "Column not found") <=> ~HasColumn(pre, c)
          /\ status # "ok" => Targeted # {}
    /\ op = "get_missing_stats" =>
          /\ status = "ok" => Range(result.keys) = Targeted
          /\ status # "ok" => Targeted # {}

C5_Witness ==
    /\ op = "check_missing_value_types"
    /\ status = "ok"
    /\ \E c \in Requested : ~HasColumn(pre, c) /\ result.val[c] = "Column not found"
    /\ \E c \in Requested : HasColumn(pre, c) /\ result.val[c] \in MissingLabels

(* C6: get_missing_stats returns, for every requested column of the table, *)
(* mcar = 1 iff check_mcar says so and skewness = 1 iff the column is      *)
(* numeric with |skewness| > 0.5, and raises nothing.                      *)
C6_ProfileFlags ==
    op = "get_missing_stats" =>
        /\ status = "ok"
        /\ \A c \in Targeted :
              /\ c \in Range(result.keys)
              /\ \E m \in check_mcar(pre, c) :
                    m.status = "ok" /\ ((result.val[c].mcar = 1) <=> m.is_mcar)
              /\ (result.val[c].skewness = 1) <=>
                    (pre.dtype[c] = "num" /\ IsSkewed(Observed(c)))

(* C7: when handle_null_values with strategy "mean" returns, every         *)
(* targeted column that had an observed value has its missing cells filled *)
(* with the arithmetic mean of the values observed at the call and its     *)
(* other cells unchanged; and it does return when every requested name is  *)
(* a column and no targeted column with a missing cell holds strings.      *)
C7_MeanFillsWithArithmeticMean ==
    Handled("mean") =>
        /\ status = "ok" =>
              \A c \in Targeted : Observed(c) # <<>> =>
                  /\ ~AnyNull(df, c)
                  /\ \E m \in Range(Series(df, c)) \cup Range(Observed(c)) :
                        /\ AnyNull(pre, c) => IsMeanOf(m, Observed(c))
                        /\ FilledWith(c, m)
        /\ (Requested = Targeted /\ \A c \in Targeted : ~(AnyNull(pre, c) /\ NotNumeric(pre, c)))
              => status = "ok"

C7_Witness ==
    /\ Handled("mean")
    /\ status = "ok"
    /\ \E c \in Targeted :
          /\ AnyNull(pre, c)
          /\ \E i \in 1..Len(df.rows) :
                /\ IsNull(pre.rows[i].cells[c])
                /\ Len(df.rows[i].cells[c]) = 2
                /\ df.rows[i].cells[c][2] # 1

(* C8: when handle_null_values with strategy "drop" returns, the rows of   *)
(* the table are the rows it had without a missing cell in any targeted    *)
(* column, in their order; with column_names=None every column is          *)
(* targeted.                                                               *)
C8_DropKeepsCompleteRows ==
    (Handled("drop") /\ status = "ok") =>
        /\ Range(df.rows) =
              {r \in Range(pre.rows) : \A c \in Targeted : ~IsNull(r.cells[c])}
        /\ Len(df.rows) <= Len(pre.rows)
        /\ \A i, j \in 1..Len(df.rows) : i < j => df.rows[i].id < df.rows[j].id
        /\ \A c \in Targeted : ~AnyNull(df, c)
        /\ ~arg.column_names.given => ~HasMissing(df)
        /\ df.columns = pre.columns

C8_Witness ==
    /\ Handled("drop")
    /\ status = "ok"
    /\ 0 < Len(df.rows)
    /\ Len(df.rows) < Len(pre.rows)
    /\ \E r \in Range(pre.rows) : r \in Range(df.rows) /\ r.id > 1

(* C9 as stated: "mode" fills the missing cells of a targeted column with  *)
(* its most frequent observed value, the first to occur in the column when *)
(* several tie.                                                            *)
C9_ModeFirstOccurringOnTies ==
    (Handled("mode") /\ status = "ok") =>
        \A c \in Targeted : AnyNull(pre, c) =>
            \E k \in 1..Len(Observed(c)) :
                /\ MostFrequent(Observed(c)[k], Observed(c))
                /\ \A j \in 1..(k - 1) : ~MostFrequent(Observed(c)[j], Observed(c))
                /\ FilledWith(c, Observed(c)[k])

(* C9 as amended: "mode" fills the missing cells of a targeted column with *)
(* its most frequent observed value, the smallest one when several tie.    *)
C9_ModeSmallestOnTies ==
    (Handled("mode") /\ status = "ok") =>
        \A c \in Targeted : AnyNull(pre, c) =>
            \E v \in Range(Observed(c)) :
                /\ MostFrequent(v, Observed(c))
                /\ \A w \in Range(Observed(c)) :
                      MostFrequent(w, Observed(c)) => ~ValLess(w, v)
                /\ FilledWith(c, v)

C9_Witness ==
    /\ Handled("mode")
    /\ status = "ok"
    /\ \E c \in Targeted :
          /\ AnyNull(pre, c)
          /\ \E v, w \in Range(Observed(c)) :
                v # w /\ MostFrequent(v, Observed(c)) /\ MostFrequent(w, Observed(c))

(* C10: a strategy that is none of the six leaves the table as it was,     *)
(* raises nothing and returns the caller's table itself.                   *)
C10_UnrecognizedStrategyPassThrough ==
    (op = "handle_null_values" /\ arg.strategy \notin Recognized) =>
        /\ status = "ok"
        /\ df = pre
        /\ result.ref = "same"
        /\ result.out = pre

C10_Witness ==
    /\ op = "handle_null_values"
    /\ arg.strategy \notin Recognized
    /\ status = "ok"
    /\ HasMissing(df)
    /\ \E c \in Requested : ~HasColumn(pre, c)

====
